---- MODULE Spec2Model ----
(***************************************************************************)
(* Model of the KISS-ICP / EVO orchestration script generate_odometry.py   *)
(* (run_kiss_icp, find_latest_run_dir, evaluate_with_evo, main) and of     *)
(* load_kitti_poses of visuzlize.py.                                       *)
(*                                                                         *)
(* The directory OUT_ROOT = outputs/SEQ is modelled as a table of entries: *)
(* entry 0 is the child named "latest", entries 1..MaxDirs are the other   *)
(* children, whose lexicographic name order is the order of the integers   *)
(* (1 = "a" < 2 = "b" < ...).  Each entry is absent, a regular file, a     *)
(* directory with a modification time, or a symbolic link to another       *)
(* child of OUT_ROOT.                                                      *)
(***************************************************************************)
EXTENDS Integers, Sequences, FiniteSets, TLC

\* ---------------------------------------------------------------- bounds
MaxDirs == 2
MaxMtime == 2
MaxLines == 2
MaxTokens == 24

\* ------------------------------------------------------ program constants
\* sys.argv[1] if given, else "00"
SEQ == "00"
\* reshape(-1, 3, 4): a pose is 3 rows of 4 numbers
PoseRows == 3
PoseCols == 4

\* OUT_ROOT / "latest"
Latest == 0
SubNames == 1..MaxDirs
Names == 0..MaxDirs
\* outcome of following a chain of symbolic links that never ends (ELOOP)
LOOP == Latest - 1
\* no path, no value (Python's None, or a stat that raised)
NONE == Latest - 2

GtName == <<SEQ, "_gt_kitti.txt">>
EstName == <<SEQ, "_poses_kitti.txt">>
ResultsDirName == <<"evo_results">>
OtherName == <<"other">>

Kinds == <<"ape", "rpe", "traj">>
PlotName(kind) == <<kind, "_", SEQ, ".png">>
StatsNameSame(kind) == <<"ape", "_stats.txt">>
StatsName(kind) == <<kind, "_stats.txt">>
StaleName == <<"old_plot.png">>

VARIABLES
    fs,          \* OUT_ROOT: [Names -> entry record]
    pc,          \* position of the script
    err,         \* the exception that ended the run, "none" otherwise
    estStarts,   \* number of times kiss_icp_pipeline was launched
    estExit,     \* its outcome: "none", "ok", "nonzero", "notfound"
    called,      \* the functions main has called so far
    via,         \* branch find_latest_run_dir returned through
    dirs,        \* the list built on line 76, in enumeration order
    idx,         \* next element of dirs whose key max() evaluates
    best,        \* max()'s current maximal element
    bestKey,     \* its key (st_mtime)
    keys,        \* the st_mtime values read so far, one per element of dirs
    runDir,      \* value returned by find_latest_run_dir
    contents,    \* names of the entries of run_dir, once observed
    listDone,    \* main printed the listing of run_dir
    listed,      \* the names it printed
    evalStarted, \* evaluator processes launched, in order
    evalExit,    \* their outcomes, in the same order
    pre,         \* what evo_results held when evaluate_with_evo reached it
    results,     \* files in evo_results
    wrote,       \* evaluators that wrote their --save_plot image
    deleted,     \* entries removed by the concurrent process
    lines,       \* pose file: token count of each line
    loadPc,      \* position of load_kitti_poses
    loadResult   \* its result

mainVars == <<estStarts, estExit, called, contents, listDone, listed,
              evalStarted, evalExit, pre, results, wrote>>
resolverVars == <<via, dirs, idx, best, bestKey, keys, runDir>>
loadVars == <<lines, loadPc, loadResult>>
vars == <<fs, pc, err, estStarts, estExit, called, via, dirs, idx, best, bestKey,
          keys, runDir, contents, listDone, listed, evalStarted,
          evalExit, pre, results, wrote, deleted, lines, loadPc, loadResult>>

\* ------------------------------------------------------------ file system
AbsentRec == [kind |-> "absent", target |-> 0, mtime |-> 0]
FileRec == [kind |-> "file", target |-> 0, mtime |-> 0]
DirRecs == {[kind |-> "dir", target |-> 0, mtime |-> m] : m \in 1..MaxMtime}
LinkRecs == {[kind |-> "link", target |-> t, mtime |-> 0] : t \in Names}
EntryRecs == {AbsentRec, FileRec} \cup DirRecs \cup LinkRecs

\* os.stat follows symbolic links; a chain longer than the number of
\* entries revisits one, which the kernel reports as ELOOP.
RECURSIVE Follow(_, _, _)
Follow(f, n, fuel) ==
    IF f[n].kind # "link" THEN n
    ELSE IF fuel = 0 THEN LOOP
    ELSE Follow(f, f[n].target, fuel - 1)

Stat(f, n) == Follow(f, n, Cardinality(Names))

IsLoop(f, n) == Stat(f, n) = LOOP

\* Path.exists(): False on ENOENT (and on ELOOP where the interpreter ignores it)
PathExists(f, n) ==
    /\ Stat(f, n) # LOOP
    /\ f[Stat(f, n)].kind \in {"file", "dir"}

\* Path.is_dir()
IsDir(f, n) ==
    /\ Stat(f, n) # LOOP
    /\ f[Stat(f, n)].kind = "dir"

\* Path.resolve(strict=False): the path with every symbolic link followed;
\* for a dangling link, the path of the missing target.
RealPathUnresolved(f, n) == n
RealPath(f, n) == Stat(f, n)

\* p.stat().st_mtime, NONE when stat raises FileNotFoundError
StatMtime(f, n) ==
    IF PathExists(f, n) THEN f[Stat(f, n)].mtime ELSE NONE

\* ------------------------------------------------------------ exceptions
NoErr == [type |-> "none", at |-> "none"]
Raised(type, at) == [type |-> type, at |-> at]

\* ---------------------------------------------------------- run_kiss_icp
\* subprocess.run(cmd, env=env, check=True): CalledProcessError on a
\* non-zero exit, FileNotFoundError when the program cannot be started.
Outcomes == {"ok", "nonzero", "notfound"}
EstimatorAbortsUnchecked(outcome) == outcome = "notfound"
EstimatorAborts(outcome) == outcome # "ok"
EvaluatorAbortsUnchecked(outcome) == outcome = "notfound"
EvaluatorAborts(outcome) == outcome # "ok"
SubprocessError(outcome, at) ==
    IF outcome = "nonzero" THEN Raised("CalledProcessError", at)
    ELSE Raised("FileNotFoundError", at)

RunKissIcp ==
    /\ pc = "run_kiss_icp"
    /\ \E outcome \in Outcomes :
         /\ estStarts' = estStarts + 1
         /\ estExit' = outcome
         /\ called' = called \cup {"run_kiss_icp"}
         /\ IF EstimatorAborts(outcome)
            THEN /\ pc' = "done"
                 /\ err' = SubprocessError(outcome, "kiss_icp_pipeline")
            ELSE /\ pc' = "find_latest"
                 /\ err' = err
    /\ UNCHANGED <<fs, resolverVars, contents, listDone, listed, evalStarted,
                   evalExit, pre, results, wrote, deleted, loadVars>>

\* ---------------------------------------------------- find_latest_run_dir
\* line 73: if latest.exists()
UseLatestLexists(f) == f[Latest].kind # "absent"
UseLatest(f) == PathExists(f, Latest)

\* lines 72-74.  A link cycle makes os.stat fail with ELOOP, which
\* Path.exists() reports as False on interpreters that ignore ELOOP and
\* re-raises as OSError on older ones.
FindLatestCheck ==
    /\ pc = "find_latest"
    /\ called' = called \cup {"find_latest_run_dir"}
    /\ IF UseLatest(fs)
       THEN /\ runDir' = RealPath(fs, Latest)
            /\ via' = "latest"
            /\ pc' = "main_check"
            /\ err' = err
       ELSE /\ UNCHANGED <<runDir, via>>
            /\ \/ /\ pc' = "iterdir"
                  /\ err' = err
               \/ /\ IsLoop(fs, Latest)
                  /\ pc' = "done"
                  /\ err' = Raised("OSError", "latest.exists")
    /\ UNCHANGED <<fs, dirs, idx, best, bestKey, keys, estStarts, estExit,
                   contents, listDone, listed, evalStarted, evalExit, pre,
                   results, wrote, deleted, loadVars>>

\* the orders in which OUT_ROOT.iterdir() may yield the entries present
Present(f) == {n \in Names : f[n].kind # "absent"}
Orders(S) ==
    {s \in [1..Cardinality(S) -> S] :
        \A i, j \in 1..Cardinality(S) : s[i] = s[j] => i = j}

RECURSIVE Filter(_, _)
Filter(f, s) ==
    IF s = <<>> THEN <<>>
    ELSE IF IsDir(f, Head(s)) THEN <<Head(s)>> \o Filter(f, Tail(s))
    ELSE Filter(f, Tail(s))

\* lines 76-78: dirs = [p for p in OUT_ROOT.iterdir() if p.is_dir()]
Enumerate ==
    /\ pc = "iterdir"
    /\ \E order \in Orders(Present(fs)) :
         \/ /\ dirs' = Filter(fs, order)
            /\ IF dirs' = <<>>
               THEN /\ pc' = "done"
                    /\ err' = Raised("FileNotFoundError", "No run directories")
                    /\ idx' = idx
               ELSE /\ pc' = "max"
                    /\ err' = err
                    /\ idx' = 1
         \/ /\ \E n \in Present(fs) : IsLoop(fs, n)
            /\ pc' = "done"
            /\ err' = Raised("OSError", "p.is_dir")
            /\ UNCHANGED <<dirs, idx>>
    /\ UNCHANGED <<fs, via, best, bestKey, keys, runDir, mainVars, deleted,
                   loadVars>>

\* max(): a later element replaces the current one only if its key is greater
BetterOrEqual(k, b) == k >= b
Better(k, b) == k > b

\* line 79, one element: key = p.stat().st_mtime, then the comparison
StatNext ==
    /\ pc = "max"
    /\ idx <= Len(dirs)
    /\ LET k == StatMtime(fs, dirs[idx]) IN
         IF k = NONE
         THEN /\ pc' = "done"
              /\ err' = Raised("FileNotFoundError", "p.stat")
              /\ UNCHANGED <<idx, best, bestKey, keys>>
         ELSE /\ keys' = Append(keys, k)
              /\ idx' = idx + 1
              /\ IF idx = 1 \/ Better(k, bestKey)
                 THEN best' = dirs[idx] /\ bestKey' = k
                 ELSE UNCHANGED <<best, bestKey>>
              /\ UNCHANGED <<pc, err>>
    /\ UNCHANGED <<fs, via, dirs, runDir, mainVars, deleted, loadVars>>

\* line 79: max() returns
ReturnMax ==
    /\ pc = "max"
    /\ idx > Len(dirs)
    /\ runDir' = best
    /\ via' = "fallback"
    /\ pc' = "main_check"
    /\ UNCHANGED <<fs, err, dirs, idx, best, bestKey, keys, mainVars, deleted,
                   loadVars>>

\* a concurrent process removes a run directory while the resolver runs
Delete(n) ==
    /\ pc \in {"find_latest", "iterdir", "max"}
    /\ fs[n].kind = "dir"
    /\ fs' = [fs EXCEPT ![n] = AbsentRec]
    /\ deleted' = deleted \cup {n}
    /\ UNCHANGED <<pc, err, resolverVars, mainVars, loadVars>>

\* ------------------------------------------------------------------ main
RunDirEntryNames == {GtName, EstName, ResultsDirName, OtherName}

\* line 183: if not (gt.exists() and est.exists())
ShouldListBothMissing(g, e) == ~g /\ ~e
ShouldList(g, e) == ~(g /\ e)

\* line 111: if not gt.exists() or not est.exists()
PoseFilesMissingBoth(g, e) == ~g /\ ~e
PoseFilesMissing(g, e) == ~g \/ ~e

\* lines 175-183: the first look into run_dir.  What the directory holds
\* is the estimator's doing; a path that is no directory holds nothing.
MainCheck ==
    /\ pc = "main_check"
    /\ \E c \in SUBSET RunDirEntryNames :
         /\ (~(runDir \in Names /\ IsDir(fs, runDir))) => c = {}
         /\ contents' = c
         /\ pc' = IF ShouldList(GtName \in c, EstName \in c)
                  THEN "listing" ELSE "evaluate"
    /\ UNCHANGED <<fs, err, resolverVars, estStarts, estExit, called, listDone,
                   listed, evalStarted, evalExit, pre, results, wrote, deleted,
                   loadVars>>

\* lines 184-186: for p in sorted(run_dir.iterdir()): print(p.name)
MainList ==
    /\ pc = "listing"
    /\ IF runDir \in Names /\ IsDir(fs, runDir)
       THEN /\ listDone' = TRUE
            /\ listed' = contents
            /\ pc' = "evaluate"
            /\ err' = err
       ELSE /\ pc' = "done"
            /\ err' = IF runDir \in Names /\ PathExists(fs, runDir)
                      THEN Raised("NotADirectoryError", "run_dir.iterdir")
                      ELSE Raised("FileNotFoundError", "run_dir.iterdir")
            /\ UNCHANGED <<listDone, listed>>
    /\ UNCHANGED <<fs, resolverVars, estStarts, estExit, called, contents,
                   evalStarted, evalExit, pre, results, wrote, deleted,
                   loadVars>>

\* ------------------------------------------------------ evaluate_with_evo
\* lines 108-112
EvalCheck ==
    /\ pc = "evaluate"
    /\ called' = called \cup {"evaluate_with_evo"}
    /\ IF PoseFilesMissing(GtName \in contents, EstName \in contents)
       THEN /\ pc' = "done"
            /\ err' = Raised("FileNotFoundError", "Missing GT/EST files")
       ELSE /\ pc' = "mkdir"
            /\ err' = err
    /\ UNCHANGED <<fs, resolverVars, estStarts, estExit, contents, listDone,
                   listed, evalStarted, evalExit, pre, results, wrote, deleted,
                   loadVars>>

\* what an evo_results left by an earlier evaluation may hold
PreFiles == {StaleName, StatsName("ape"), PlotName("traj")}

\* lines 114-115: results_dir.mkdir(exist_ok=True) keeps an existing
\* directory with all it holds, and raises on a non-directory.
EvalMkdir ==
    /\ pc = "mkdir"
    /\ IF ResultsDirName \in contents
       THEN \/ /\ \E p \in SUBSET PreFiles : pre' = p
               /\ pc' = "ape"
               /\ err' = err
            \/ /\ pre' = pre
               /\ pc' = "done"
               /\ err' = Raised("FileExistsError", "results_dir.mkdir")
       ELSE /\ pre' = {}
            /\ pc' = "ape"
            /\ err' = err
    /\ results' = pre'
    /\ UNCHANGED <<fs, resolverVars, estStarts, estExit, called, contents,
                   listDone, listed, evalStarted, evalExit, wrote, deleted,
                   loadVars>>

NextPass(kind) ==
    IF kind = "ape" THEN "rpe" ELSE IF kind = "rpe" THEN "traj" ELSE "done"

\* lines 138-148, one pass: open the stats file for writing, then
\* subprocess.run(cmd, check=True, stdout=f).  Whether the evaluator writes
\* its --save_plot image is the evaluator's doing.
RunEvaluator(kind) ==
    /\ pc = kind
    /\ \E outcome \in Outcomes, w \in BOOLEAN :
         /\ outcome = "notfound" => ~w
         /\ evalStarted' = Append(evalStarted, kind)
         /\ evalExit' = Append(evalExit, outcome)
         /\ results' = results \cup {StatsName(kind)}
                         \cup (IF w THEN {PlotName(kind)} ELSE {})
         /\ wrote' = wrote \cup (IF w THEN {kind} ELSE {})
         /\ IF EvaluatorAborts(outcome)
            THEN /\ pc' = "done"
                 /\ err' = SubprocessError(outcome, kind)
            ELSE /\ pc' = NextPass(kind)
                 /\ err' = err
    /\ UNCHANGED <<fs, resolverVars, estStarts, estExit, called, contents,
                   listDone, listed, pre, deleted, loadVars>>

\* ------------------------------------------------------- load_kitti_poses
RECURSIVE SumSeq(_)
SumSeq(s) == IF s = <<>> THEN 0 ELSE Head(s) + SumSeq(Tail(s))

\* np.loadtxt skips blank lines
RECURSIVE NonBlank(_)
NonBlank(s) ==
    IF s = <<>> THEN <<>>
    ELSE IF Head(s) = 0 THEN NonBlank(Tail(s))
    ELSE <<Head(s)>> \o NonBlank(Tail(s))

\* np.loadtxt: every row must have as many columns as the first one
Rectangular(rows) == \A i \in 1..Len(rows) : rows[i] = rows[1]

\* .reshape(-1, 3, 4): any array whose size is a multiple of 12
Reshapable(size) == size % (PoseRows * PoseCols) = 0

\* lines 12-17; a pose file of numeric tokens, ls[i] tokens on line i
LoadKittiPoses(ls) ==
    LET rows == NonBlank(ls) IN
    IF ~Rectangular(rows) THEN [status |-> "ValueError", poses |-> 0]
    ELSE IF ~Reshapable(SumSeq(rows)) THEN [status |-> "ValueError", poses |-> 0]
    ELSE [status |-> "ok", poses |-> SumSeq(rows) \div (PoseRows * PoseCols)]

Load ==
    /\ loadPc = "ready"
    /\ loadResult' = LoadKittiPoses(lines)
    /\ loadPc' = "done"
    /\ UNCHANGED <<fs, pc, err, resolverVars, mainVars, deleted, lines>>

\* --------------------------------------------------------- specifications
\* OUT_ROOT as the estimator leaves it (line 55 made it a directory)
InitFs == {f \in [Names -> EntryRecs] : f[Latest].mtime <= 1}

PoseFiles ==
    UNION {[1..n -> 0..MaxTokens] : n \in 0..MaxLines}

InitIdle ==
    /\ err = NoErr
    /\ via = "none"
    /\ dirs = <<>>
    /\ idx = 0
    /\ best = NONE
    /\ bestKey = NONE
    /\ keys = <<>>
    /\ runDir = NONE
    /\ contents = {}
    /\ listDone = FALSE
    /\ listed = {}
    /\ evalStarted = <<>>
    /\ evalExit = <<>>
    /\ pre = {}
    /\ results = {}
    /\ wrote = {}
    /\ deleted = {}
    /\ loadResult = [status |-> "none", poses |-> 0]

\* a run of main
Init ==
    /\ fs \in InitFs
    /\ pc = "run_kiss_icp"
    /\ estStarts = 0
    /\ estExit = "none"
    /\ called = {}
    /\ lines = <<>>
    /\ loadPc = "idle"
    /\ InitIdle

Next ==
    \/ RunKissIcp
    \/ FindLatestCheck
    \/ Enumerate
    \/ StatNext
    \/ ReturnMax
    \/ MainCheck
    \/ MainList
    \/ EvalCheck
    \/ EvalMkdir
    \/ \E kind \in {"ape", "rpe", "traj"} : RunEvaluator(kind)

Spec == Init /\ [][Next]_vars

\* find_latest_run_dir called after the estimator succeeded, while another
\* process removes run directories
InitRace ==
    /\ fs \in InitFs
    /\ pc = "find_latest"
    /\ estStarts = 1
    /\ estExit = "ok"
    /\ called = {"run_kiss_icp"}
    /\ lines = <<>>
    /\ loadPc = "idle"
    /\ InitIdle

NextRace ==
    \/ FindLatestCheck
    \/ Enumerate
    \/ StatNext
    \/ ReturnMax
    \/ \E n \in SubNames : Delete(n)

SpecRace == InitRace /\ [][NextRace]_vars

\* load_kitti_poses applied to a pose file
InitLoad ==
    /\ fs = [n \in Names |-> AbsentRec]
    /\ pc = "idle"
    /\ estStarts = 0
    /\ estExit = "none"
    /\ called = {}
    /\ lines \in PoseFiles
    /\ loadPc = "ready"
    /\ InitIdle

NextLoad == Load

SpecLoad == InitLoad /\ [][NextLoad]_vars

\* ----------------------------------------------------------------- claims
MissingPoseFilesError == Raised("FileNotFoundError", "Missing GT/EST files")
NoRunDirectoriesError == Raised("FileNotFoundError", "No run directories")
\* the output files the docstring of evaluate_with_evo lists
SixArtifacts ==
    {<<"ape", "_", SEQ, ".png">>, <<"rpe", "_", SEQ, ".png">>,
     <<"traj", "_", SEQ, ".png">>, <<"ape", "_stats.txt">>,
     <<"rpe", "_stats.txt">>, <<"traj", "_stats.txt">>}
AllKinds == {"ape", "rpe", "traj"}
Prefix(s, t) == Len(s) <= Len(t) /\ \A i \in 1..Len(s) : s[i] = t[i]

\* C1: once evaluate_with_evo has run its check on a run directory that
\* lacks the ground-truth or the estimated pose file, the call has ended
\* with the missing-pose-files FileNotFoundError, no evaluator process was
\* started and evo_results was not touched.
C1_MissingPoseFilesNoEvaluator ==
    ("evaluate_with_evo" \in called
        /\ (GtName \notin contents \/ EstName \notin contents))
    => /\ pc = "done"
       /\ err = MissingPoseFilesError
       /\ evalStarted = <<>>
       /\ results = {}

C1_Witness ==
    /\ err = MissingPoseFilesError
    /\ GtName \notin contents
    /\ EstName \in contents
    /\ evalStarted = <<>>

\* C2 (as claimed): whenever the evaluation has begun and every evaluator
\* launched returned an exit code, the finished call has attempted all
\* three passes, whatever the exit codes were.
C2_AllPassesAttempted ==
    (pc = "done" /\ evalStarted # <<>>
        /\ \A i \in 1..Len(evalExit) : evalExit[i] \in {"ok", "nonzero"})
    => evalStarted = Kinds

\* C2 (amended): the passes run in the order ape, rpe, traj; a pass is
\* started only if every earlier pass exited zero, and the first evaluator
\* that does not exit zero ends the call at once with that pass's error.
C2_FailFast ==
    /\ Prefix(evalStarted, Kinds)
    /\ Len(evalExit) = Len(evalStarted)
    /\ \A i \in 1..Len(evalExit) :
         evalExit[i] # "ok"
         => /\ i = Len(evalExit)
            /\ pc = "done"
            /\ err = SubprocessError(evalExit[i], Kinds[i])

C2_Witness ==
    /\ pc = "done"
    /\ evalStarted = <<"ape", "rpe">>
    /\ evalExit = <<"ok", "nonzero">>
    /\ err = Raised("CalledProcessError", "rpe")

\* evaluate_with_evo returned normally and each evaluator wrote its image
EvalSucceeded ==
    /\ pc = "done"
    /\ err = NoErr
    /\ "evaluate_with_evo" \in called
    /\ wrote = AllKinds

\* C3 (as claimed): after a successful evaluation evo_results holds exactly
\* the six artifact files, whatever it held before.
C3_ExactlySix == EvalSucceeded => results = SixArtifacts

\* C3 (amended): after a successful evaluation evo_results holds the six
\* artifact files together with everything it held before the call.
C3_SixPlusPrevious == EvalSucceeded => results = pre \cup SixArtifacts

C3_Witness ==
    /\ EvalSucceeded
    /\ StaleName \in pre
    /\ Cardinality(results) > 6

\* C4: when "latest" is a directory, or a symbolic link to a directory X,
\* find_latest_run_dir returns that real directory, without enumerating
\* OUT_ROOT or reading any modification time.
C4_LatestWins ==
    /\ ("find_latest_run_dir" \in called
          /\ \/ fs[Latest].kind = "dir"
             \/ /\ fs[Latest].kind = "link"
                /\ fs[fs[Latest].target].kind = "dir")
       => /\ via = "latest"
          /\ runDir = IF fs[Latest].kind = "dir" THEN Latest
                      ELSE fs[Latest].target
          /\ dirs = <<>>
          /\ keys = <<>>
    \* a link that reaches its directory through further links
    /\ ("find_latest_run_dir" \in called /\ IsDir(fs, Latest))
       => /\ via = "latest"
          /\ runDir \in Names
          /\ fs[runDir].kind = "dir"
          /\ dirs = <<>>
          /\ keys = <<>>

C4_Witness ==
    /\ via = "latest"
    /\ fs[Latest].kind = "link"
    /\ fs[Latest].target \in SubNames
    /\ runDir = fs[Latest].target
    /\ fs[runDir].kind = "dir"
    /\ \E n \in SubNames :
         fs[n].kind = "dir" /\ fs[n].mtime > fs[runDir].mtime

\* C5 (as claimed): with no "latest" entry and nothing removed meanwhile,
\* the fallback returns a subdirectory of greatest modification time, and
\* among several of that time the one with the greatest name.
C5_TieLexGreatest ==
    (via = "fallback" /\ fs[Latest].kind = "absent" /\ deleted = {})
    => \A n \in Names :
         IsDir(fs, n)
         => \/ StatMtime(fs, n) < StatMtime(fs, runDir)
            \/ (StatMtime(fs, n) = StatMtime(fs, runDir) /\ n <= runDir)

\* C5 (amended): the fallback returns the enumerated subdirectory whose
\* modification time, as read, is greatest, and among several of that time
\* the one the directory enumeration yielded first.
C5_FirstEnumeratedMax ==
    via = "fallback"
    => /\ Len(keys) = Len(dirs)
       /\ \E i \in 1..Len(dirs) :
            /\ runDir = dirs[i]
            /\ \A j \in 1..Len(dirs) : keys[j] <= keys[i]
            /\ \A j \in 1..(i - 1) : keys[j] < keys[i]

C5_Witness ==
    /\ via = "fallback"
    /\ fs[Latest].kind = "absent"
    /\ deleted = {}
    /\ \E n \in SubNames :
         /\ n > runDir
         /\ IsDir(fs, n)
         /\ StatMtime(fs, n) = StatMtime(fs, runDir)

\* "latest" is a symbolic link that is dangling or part of a cycle
LatestUnresolvable ==
    /\ fs[Latest].kind = "link"
    /\ \/ Stat(fs, Latest) = LOOP
       \/ fs[Stat(fs, Latest)].kind = "absent"

\* C6 (as claimed): with an unresolvable "latest", find_latest_run_dir
\* fails with UnresolvableLatest and never reaches the fallback.
C6_UnresolvableLatestFails ==
    (LatestUnresolvable /\ "find_latest_run_dir" \in called)
    => /\ pc = "done"
       /\ err.type = "UnresolvableLatest"
       /\ via = "none"
       /\ dirs = <<>>

\* C6 (amended): an unresolvable "latest" is treated as absent.  The
\* resolver never returns through the "latest" branch; it goes on to the
\* fallback, where it returns a directory of OUT_ROOT or fails because
\* there is none; only a link cycle can instead end it with OSError.
C6_UnresolvableLatestFallsThrough ==
    (LatestUnresolvable /\ "find_latest_run_dir" \in called)
    => /\ via # "latest"
       /\ pc \in {"iterdir", "max"} \/ via = "fallback" \/ err # NoErr
       /\ via = "fallback" => (runDir \in SubNames /\ IsDir(fs, runDir))
       /\ err = NoRunDirectoriesError => \A n \in Names : ~IsDir(fs, n)
       /\ err.type = "OSError" => \E n \in Names : IsLoop(fs, n)
       /\ (pc = "done" /\ via = "none")
            => (err = NoRunDirectoriesError \/ err.type = "OSError")

C6_Witness ==
    /\ via = "fallback"
    /\ fs[Latest].kind = "link"
    /\ fs[fs[Latest].target].kind = "absent"
    /\ runDir \in SubNames

\* C7 (as claimed): when the fallback ends while another process removes
\* directories, a vanished candidate was skipped: the resolver returned a
\* surviving candidate of greatest modification time, and failed (with the
\* FileNotFoundError that stands for NoRunDirectories) only if none survived.
Surviving == {n \in Names : (\E i \in 1..Len(dirs) : dirs[i] = n) /\ IsDir(fs, n)}
C7_VanishedSkipped ==
    (pc \in {"main_check", "done"} /\ dirs # <<>>)
    => IF Surviving = {}
       THEN err.type = "FileNotFoundError"
       ELSE /\ err = NoErr
            /\ runDir \in Surviving
            /\ \A n \in Surviving : StatMtime(fs, n) <= StatMtime(fs, runDir)

\* C8: kiss_icp_pipeline is launched once and never again; unless it exits
\* zero the run ends there with its error, the run directory is never
\* resolved and no evaluator is launched.
C8_SingleAttemptFailFast ==
    /\ estStarts <= 1
    /\ pc # "run_kiss_icp" => estStarts = 1
    /\ estExit \in {"nonzero", "notfound"}
         => /\ pc = "done"
            /\ err = SubprocessError(estExit, "kiss_icp_pipeline")
            /\ called = {"run_kiss_icp"}
            /\ via = "none"
            /\ evalStarted = <<>>
    /\ ("find_latest_run_dir" \in called \/ evalStarted # <<>>)
         => estExit = "ok"

C8_Witness ==
    /\ pc = "done"
    /\ estStarts = 1
    /\ estExit = "nonzero"
    /\ err = Raised("CalledProcessError", "kiss_icp_pipeline")

\* C9: a run that ends in the missing-pose-files error has listed every
\* entry of the run directory before evaluate_with_evo was entered, the
\* listing is printed only when a pose file is absent, and a run directory
\* path that is no directory never reaches the missing-pose-files error.
C9_ListingBeforeMissing ==
    /\ err = MissingPoseFilesError => (listDone /\ listed = contents)
    /\ (pc = "evaluate" /\ (GtName \notin contents \/ EstName \notin contents))
         => (listDone /\ listed = contents)
    /\ listDone => (GtName \notin contents \/ EstName \notin contents)
    /\ (runDir \in Names /\ ~IsDir(fs, runDir)) => err # MissingPoseFilesError

C9_Witness ==
    /\ err = MissingPoseFilesError
    /\ listDone
    /\ listed = {GtName, OtherName}

\* C10 (as claimed): a loaded pose file in which some non-blank line does
\* not hold exactly 12 tokens is rejected.
C10_MalformedRejected ==
    (loadPc = "done"
        /\ \E i \in 1..Len(lines) : lines[i] \notin {0, PoseRows * PoseCols})
    => loadResult.status # "ok"

====
